---------------------------- MODULE Spec2Model ----------------------------
(***************************************************************************)
(* Model of the gPXE TFTP / TFTM / MTFTP client (src/net/udp/tftp.c).      *)
(*                                                                         *)
(* One request (struct tftp_request) is modelled as the record `tftp`.     *)
(* Every handler of the source is an operator on a working record: the    *)
(* request's fields plus `fx`, the ordered list of the effects the handler *)
(* has on its collaborators (packets transmitted, calls on the downstream  *)
(* sink).  An action applies one whole handler to one input.               *)
(***************************************************************************)
EXTENDS Integers, Sequences, FiniteSets, TLC

VARIABLES
    tftp,                   \* struct tftp_request
    opened,                 \* tftp_core_open() has returned 0
    fx,                     \* effects of the last handler, in program order
    ev,                     \* the event the last handler was run for
    tftp_request_blksize,   \* global: requested block size
    tftp_mtftp_socket,      \* global: MTFTP multicast address (port)
    closes,                 \* the statuses the downstream sink has been closed with
    file                    \* the length of the file an honest server holds

vars == << tftp, opened, fx, ev, tftp_request_blksize, tftp_mtftp_socket, closes, file >>

----------------------------------------------------------------------------
(* Program constants *)

TFTP_PORT == 69
MTFTP_PORT == 1759
TFTP_DEFAULT_BLKSIZE == 512
TFTP_MAX_BLKSIZE == 1432
MTFTP_MAX_TIMEOUTS == 3
MTFTP_DEFAULT_MC_PORT == 3001

\* unsigned int, size_t and off_t hold at least 32 bits.  Every quantity of
\* the model stays below 2^31 (the largest block index reached is below
\* 3 * BLOCK16 and the largest block size is 1024), so none of the unsigned
\* operations of the source wraps and they are written without a modulus.
\* TFTP block numbers are 16 bits wide on the wire
BLOCK16 == 65536

SEND_ACK == "SEND_ACK"
RRQ_SIZES == "RRQ_SIZES"
RRQ_MULTICAST == "RRQ_MULTICAST"
MTFTP_RECOVERY == "MTFTP_RECOVERY"

\* Status codes
OK == "OK"
EINVAL == "EINVAL"
ETIMEDOUT == "ETIMEDOUT"
ENOMEM == "ENOMEM"
ENOENT == "ENOENT"
EACCES == "EACCES"
ENOTSUP == "ENOTSUP"
EIO == "EIO"
ECANCELED == "ECANCELED"
EHOSTUNREACH == "EHOSTUNREACH"
ETFTP_INVALID_BLKSIZE == "ETFTP_INVALID_BLKSIZE"
ETFTP_INVALID_TSIZE == "ETFTP_INVALID_TSIZE"
ETFTP_MC_NO_PORT == "ETFTP_MC_NO_PORT"
ETFTP_MC_NO_MC == "ETFTP_MC_NO_MC"
ETFTP_MC_INVALID_MC == "ETFTP_MC_INVALID_MC"
ETFTP_MC_INVALID_IP == "ETFTP_MC_INVALID_IP"
ETFTP_MC_INVALID_PORT == "ETFTP_MC_INVALID_PORT"

----------------------------------------------------------------------------
(* Bounds of the model *)

\* wire block numbers the modelled server sends are 0 .. MaxWireBlock
MaxWireBlock == 2

----------------------------------------------------------------------------
(* Effects *)

\* The({ e : x \in {v} }) is e with x standing for the value of v
The(S) == CHOOSE x \in S : TRUE

Fx(k, a, b, rc) == [k |-> k, a |-> a, b |-> b, rc |-> rc]

Emit(t, e) == [t EXCEPT !.fx = Append(@, e)]

Kinds(s) == [i \in 1..Len(s) |-> s[i].k]

HasKind(s, k) == \E i \in 1..Len(s) : s[i].k = k

IndexOfKind(s, k) == CHOOSE i \in 1..Len(s) : s[i].k = k /\ \A j \in 1..(i-1) : s[j].k # k

----------------------------------------------------------------------------
(* Block bitmap (gpxe/bitmap.h).  The bitmap is an array of 32-bit words.   *)
(* `first_gap` is the index of the first clear bit as maintained by         *)
(* bitmap_set(); every bit below it has been set.  `bits` holds the set     *)
(* bits at or above first_gap.                                              *)

BITMAP_BLKSIZE == 32

BitmapZero == [length |-> 0, first_gap |-> 0, bits |-> {}]

\* number of bits in the words allocated for a bitmap of `length` bits
bitmap_alloc(length) == ((length + BITMAP_BLKSIZE - 1) \div BITMAP_BLKSIZE) * BITMAP_BLKSIZE

bitmap_test(bm, bit) == bit < bm.length /\ (bit < bm.first_gap \/ bit \in bm.bits)

RECURSIVE bitmap_advance(_)
bitmap_advance(bm) ==
    IF bm.first_gap < bm.length /\ bm.first_gap \in bm.bits
    THEN bitmap_advance([bm EXCEPT !.first_gap = @ + 1, !.bits = @ \ {bm.first_gap}])
    ELSE bm

\* No bounds check: a bit beyond the length but inside the last allocated
\* word is stored there; a bit beyond the allocation is written outside
\* the bitmap's memory.
bitmap_set(bm, bit) ==
    bitmap_advance([bm EXCEPT !.bits =
        IF bit >= bm.first_gap /\ bit < bitmap_alloc(bm.length) THEN @ \cup {bit} ELSE @])

bitmap_first_gap(bm) == bm.first_gap

bitmap_full(bm) == bm.first_gap = bm.length

\* Words beyond the new allocation are given up; first_gap is left alone.
bitmap_resize(bm, new_length) ==
    [bm EXCEPT !.length = new_length,
               !.bits = {b \in @ : b < bitmap_alloc(new_length)}]

----------------------------------------------------------------------------
(* Strings are sequences of one-character strings. *)

DigitVal == [c \in {"0","1","2","3","4","5","6","7","8","9"} |->
    CASE c = "0" -> 0 [] c = "1" -> 1 [] c = "2" -> 2 [] c = "3" -> 3 [] c = "4" -> 4
      [] c = "5" -> 5 [] c = "6" -> 6 [] c = "7" -> 7 [] c = "8" -> 8 [] c = "9" -> 9]

IsDigit(c, base) == c \in DOMAIN DigitVal /\ DigitVal[c] < base

RECURSIVE strtoul_digits(_, _, _)
strtoul_digits(s, base, acc) ==
    IF s # << >> /\ IsDigit(Head(s), base)
    THEN strtoul_digits(Tail(s), base, acc * base + DigitVal[Head(s)])
    ELSE [val |-> acc, end |-> s]

RECURSIVE skip_space(_)
skip_space(s) == IF s # << >> /\ Head(s) = " " THEN skip_space(Tail(s)) ELSE s

\* strtoul(): leading white space is skipped; base 0 selects octal after a
\* leading "0" and hexadecimal after "0x"; `end` is the unparsed tail.
strtoul(str, base) ==
    The({ IF base # 0 THEN strtoul_digits(s, base, 0)
          ELSE IF s # << >> /\ Head(s) = "0"
               THEN IF Tail(s) # << >> /\ Head(Tail(s)) \in {"x", "X"}
                    THEN strtoul_digits(Tail(Tail(s)), 16, 0)
                    ELSE strtoul_digits(Tail(s), 8, 0)
               ELSE strtoul_digits(s, 10, 0)
          : s \in { skip_space(str) } })

ToLower(c) ==
    CASE c = "B" -> "b" [] c = "L" -> "l" [] c = "K" -> "k" [] c = "S" -> "s"
      [] c = "I" -> "i" [] c = "Z" -> "z" [] c = "E" -> "e" [] c = "T" -> "t"
      [] c = "M" -> "m" [] c = "U" -> "u" [] c = "C" -> "c" [] c = "A" -> "a"
      [] OTHER -> c

strcasecmp_eq(a, b) ==
    Len(a) = Len(b) /\ \A i \in 1..Len(a) : ToLower(a[i]) = ToLower(b[i])

\* index of the first occurrence of c in s, 0 if there is none
strchr(s, c) ==
    IF \E i \in 1..Len(s) : s[i] = c
    THEN CHOOSE i \in 1..Len(s) : s[i] = c /\ \A j \in 1..(i-1) : s[j] # c
    ELSE 0

----------------------------------------------------------------------------
(* struct tftp_request.  An interface (xfer, socket, mc_socket) is plugged  *)
(* when it is connected to its peer object and nullified when its           *)
(* operations have been replaced by the null operations.                    *)

Intf == [plugged |-> FALSE, nullified |-> FALSE]

\* zalloc()ed request, before tftp_core_open() has filled it in
TftpZero ==
    [ blksize |-> 0, tsize |-> 0, port |-> 0, peer |-> 0, flags |-> {},
      mtftp_timeouts |-> 0, bitmap |-> BitmapZero, filesize |-> 0,
      timer |-> "stopped", socket |-> Intf, mc_socket |-> Intf, xfer |-> Intf,
      mc_port |-> 0, oob |-> FALSE, crashed |-> FALSE ]

\* the working record of a handler and the request it leaves behind
Work(t) ==
    [ blksize |-> t.blksize, tsize |-> t.tsize, port |-> t.port, peer |-> t.peer,
      flags |-> t.flags, mtftp_timeouts |-> t.mtftp_timeouts, bitmap |-> t.bitmap,
      filesize |-> t.filesize, timer |-> t.timer, socket |-> t.socket,
      mc_socket |-> t.mc_socket, xfer |-> t.xfer, mc_port |-> t.mc_port,
      oob |-> t.oob, crashed |-> t.crashed, fx |-> << >> ]

Request(w) ==
    [ blksize |-> w.blksize, tsize |-> w.tsize, port |-> w.port, peer |-> w.peer,
      flags |-> w.flags, mtftp_timeouts |-> w.mtftp_timeouts, bitmap |-> w.bitmap,
      filesize |-> w.filesize, timer |-> w.timer, socket |-> w.socket,
      mc_socket |-> w.mc_socket, xfer |-> w.xfer, mc_port |-> w.mc_port,
      oob |-> w.oob, crashed |-> w.crashed ]

\* outcome of a step that can fail
Ret(t, rc) == [t |-> t, rc |-> rc]

\* xfer_close(): the close reaches the other side only if the interface is
\* plugged; the interface is unplugged
xfer_close(t, intf, rc) ==
    Emit([t EXCEPT ![intf].plugged = FALSE],
         Fx(intf, 0, IF t[intf].plugged THEN 1 ELSE 0, rc))

xfer_nullify(t, intf) == [t EXCEPT ![intf].nullified = TRUE]

stop_timer(t) == [t EXCEPT !.timer = "stopped"]
start_timer(t) == [t EXCEPT !.timer = "running"]
start_timer_nodelay(t) == [t EXCEPT !.timer = "running"]

\* Mutant: the retry timer is left running
tftp_done_keeps_timer(t, rc) ==
    LET t2 == xfer_close(xfer_nullify(t, "socket"), "socket", rc)
        t3 == xfer_close(xfer_nullify(t2, "mc_socket"), "mc_socket", rc)
    IN  xfer_close(xfer_nullify(t3, "xfer"), "xfer", rc)

\* Mutant: the sockets are closed with status 0 whatever the status is
tftp_done_sockets_ok(t, rc) ==
    LET t1 == stop_timer(t)
        t2 == xfer_close(xfer_nullify(t1, "socket"), "socket", OK)
        t3 == xfer_close(xfer_nullify(t2, "mc_socket"), "mc_socket", OK)
    IN  xfer_close(xfer_nullify(t3, "xfer"), "xfer", rc)

tftp_done(t, rc) ==
    LET t1 == stop_timer(t)
        t2 == xfer_close(xfer_nullify(t1, "socket"), "socket", rc)
        t3 == xfer_close(xfer_nullify(t2, "mc_socket"), "mc_socket", rc)
    IN  xfer_close(xfer_nullify(t3, "xfer"), "xfer", rc)

\* Mutant: the peer address survives the reopen
tftp_reopen_keeps_peer(t, open_rc) ==
    LET t1 == xfer_close(t, "socket", OK)
        t2 == [t1 EXCEPT !.flags = @ \ {SEND_ACK}]
    IN  IF open_rc # OK THEN Ret(t2, open_rc)
        ELSE Ret(Emit([t2 EXCEPT !.socket.plugged = TRUE],
                      Fx("socket_open", t2.port, 0, OK)), OK)

\* open_rc: the result of xfer_open_named_socket()
tftp_reopen(t, open_rc) ==
    LET t1 == xfer_close(t, "socket", OK)
        t2 == [t1 EXCEPT !.flags = @ \ {SEND_ACK}, !.peer = 0]
    IN  IF open_rc # OK THEN Ret(t2, open_rc)
        ELSE Ret(Emit([t2 EXCEPT !.socket.plugged = TRUE],
                      Fx("socket_open", t2.port, 0, OK)), OK)

\* local: the port of the local multicast address; open_rc: the result of
\* xfer_open_socket()
tftp_reopen_mc(t, local, open_rc) ==
    LET t1 == xfer_close(t, "mc_socket", OK)
    IN  IF open_rc # OK THEN Ret(t1, open_rc)
        ELSE Ret(Emit([t1 EXCEPT !.mc_socket.plugged = TRUE, !.mc_port = local],
                      Fx("mc_socket_open", local, 0, OK)), OK)

\* Mutant: the bitmap is sized without the trailing block
tftp_presize_no_trailing(t, filesize, resize_rc) ==
    IF filesize <= t.filesize THEN Ret(t, OK)
    ELSE LET t1 == [t EXCEPT !.filesize = filesize]
             t2 == Emit(Emit(t1, Fx("seek", filesize, 0, OK)), Fx("seek", 0, 0, OK))
         IN  IF t2.blksize = 0 THEN Ret([t2 EXCEPT !.crashed = TRUE], "TRAP")
             ELSE LET num_blocks == (filesize + t2.blksize - 1) \div t2.blksize
                  IN  IF resize_rc # OK THEN Ret(t2, resize_rc)
                      ELSE Ret([t2 EXCEPT !.bitmap = bitmap_resize(@, num_blocks)], OK)

\* Mutant: the size is taken over even when it is not larger
tftp_presize_any_size(t, filesize, resize_rc) ==
    LET t1 == [t EXCEPT !.filesize = filesize]
        t2 == Emit(Emit(t1, Fx("seek", filesize, 0, OK)), Fx("seek", 0, 0, OK))
    IN  IF t2.blksize = 0 THEN Ret([t2 EXCEPT !.crashed = TRUE], "TRAP")
        ELSE LET num_blocks == (filesize \div t2.blksize) + 1
             IN  IF resize_rc # OK THEN Ret(t2, resize_rc)
                 ELSE Ret([t2 EXCEPT !.bitmap = bitmap_resize(@, num_blocks)], OK)

\* resize_rc: the result of bitmap_resize().  A zero block size makes the
\* division trap.
tftp_presize(t, filesize, resize_rc) ==
    IF filesize <= t.filesize THEN Ret(t, OK)
    ELSE LET t1 == [t EXCEPT !.filesize = filesize]
             t2 == Emit(Emit(t1, Fx("seek", filesize, 0, OK)), Fx("seek", 0, 0, OK))
         IN  IF t2.blksize = 0 THEN Ret([t2 EXCEPT !.crashed = TRUE], "TRAP")
             ELSE LET num_blocks == (filesize \div t2.blksize) + 1
                  IN  IF resize_rc # OK THEN Ret(t2, resize_rc)
                      ELSE Ret([t2 EXCEPT !.bitmap = bitmap_resize(@, num_blocks)], OK)

tftp_send_rrq(t) ==
    Emit(t, Fx("rrq", t.port,
               IF RRQ_SIZES \in t.flags THEN tftp_request_blksize ELSE 0,
               CASE {RRQ_SIZES, RRQ_MULTICAST} \subseteq t.flags -> "blksize,tsize,multicast"
                 [] RRQ_SIZES \in t.flags -> "blksize,tsize"
                 [] RRQ_MULTICAST \in t.flags -> "multicast"
                 [] OTHER -> "none"))

\* Mutant: the ACK carries the number of the next block wanted
tftp_send_ack_next(t) ==
    LET block == bitmap_first_gap(t.bitmap) + 1
    IN  Emit(t, Fx("ack", block % BLOCK16, t.peer, OK))

tftp_send_ack(t) ==
    LET block == bitmap_first_gap(t.bitmap)
    IN  Emit(t, Fx("ack", block % BLOCK16, t.peer, OK))

\* Mutant: an ACK is sent whether or not TFTP_FL_SEND_ACK is set
tftp_send_packet_always_ack(t) ==
    LET t1 == start_timer(stop_timer(t))
    IN  IF t1.peer = 0 THEN tftp_send_rrq(t1)
        ELSE tftp_send_ack(t1)

\* Mutant: the timer is restarted only when a packet is sent
tftp_send_packet_timer_on_send(t) ==
    LET t0 == stop_timer(t)
    IN  IF t0.peer = 0 THEN tftp_send_rrq(start_timer(t0))
        ELSE IF SEND_ACK \in t0.flags THEN tftp_send_ack(start_timer(t0))
        ELSE t0

tftp_send_packet(t) ==
    LET t1 == start_timer(stop_timer(t))
    IN  IF t1.peer = 0 THEN tftp_send_rrq(t1)
        ELSE IF SEND_ACK \in t1.flags THEN tftp_send_ack(t1)
        ELSE t1

\* Mutant: the fallback is taken one expiry early
tftp_timer_expired_early_fallback(t, fail, open_rc) ==
    IF MTFTP_RECOVERY \in t.flags
    THEN IF t.peer # 0
         THEN The({ IF r.rc # OK THEN tftp_done(r.t, r.rc) ELSE tftp_send_packet(r.t)
                    : r \in { tftp_reopen(t, open_rc) } })
         ELSE LET t1 == [t EXCEPT !.mtftp_timeouts = @ + 1]
              IN  IF t1.mtftp_timeouts >= MTFTP_MAX_TIMEOUTS
                  THEN LET t2 == [t1 EXCEPT !.flags = {RRQ_SIZES}]
                           t3 == xfer_close(t2, "mc_socket", OK)
                           t4 == start_timer_nodelay(t3)
                           t5 == [t4 EXCEPT !.bitmap = BitmapZero]
                           t6 == [t5 EXCEPT !.port = TFTP_PORT]
                       IN  The({ IF r.rc # OK THEN tftp_done(r.t, r.rc)
                                 ELSE tftp_send_packet(r.t)
                                 : r \in { tftp_reopen(t6, open_rc) } })
                  ELSE tftp_send_packet(t1)
    ELSE IF fail THEN tftp_done(t, ETIMEDOUT)
         ELSE tftp_send_packet(t)

\* Mutant: a plain TFTP request never gives up
tftp_timer_expired_never_fails(t, fail, open_rc) ==
    IF MTFTP_RECOVERY \in t.flags
    THEN IF t.peer # 0
         THEN The({ IF r.rc # OK THEN tftp_done(r.t, r.rc) ELSE tftp_send_packet(r.t)
                    : r \in { tftp_reopen(t, open_rc) } })
         ELSE LET t1 == [t EXCEPT !.mtftp_timeouts = @ + 1]
              IN  IF t1.mtftp_timeouts > MTFTP_MAX_TIMEOUTS
                  THEN LET t2 == [t1 EXCEPT !.flags = {RRQ_SIZES}]
                           t3 == xfer_close(t2, "mc_socket", OK)
                           t4 == start_timer_nodelay(t3)
                           t5 == [t4 EXCEPT !.bitmap = BitmapZero]
                           t6 == [t5 EXCEPT !.port = TFTP_PORT]
                       IN  The({ IF r.rc # OK THEN tftp_done(r.t, r.rc)
                                 ELSE tftp_send_packet(r.t)
                                 : r \in { tftp_reopen(t6, open_rc) } })
                  ELSE tftp_send_packet(t1)
    ELSE tftp_send_packet(t)

\* fail: the retry timer's failure indicator; open_rc: the result of any
\* socket open the handler performs
tftp_timer_expired(t, fail, open_rc) ==
    IF MTFTP_RECOVERY \in t.flags
    THEN IF t.peer # 0
         THEN The({ IF r.rc # OK THEN tftp_done(r.t, r.rc) ELSE tftp_send_packet(r.t)
                    : r \in { tftp_reopen(t, open_rc) } })
         ELSE LET t1 == [t EXCEPT !.mtftp_timeouts = @ + 1]
              IN  IF t1.mtftp_timeouts > MTFTP_MAX_TIMEOUTS
                  THEN LET t2 == [t1 EXCEPT !.flags = {RRQ_SIZES}]
                           t3 == xfer_close(t2, "mc_socket", OK)
                           t4 == start_timer_nodelay(t3)
                           t5 == [t4 EXCEPT !.bitmap = BitmapZero]
                           t6 == [t5 EXCEPT !.port = TFTP_PORT]
                       IN  The({ IF r.rc # OK THEN tftp_done(r.t, r.rc)
                                 ELSE tftp_send_packet(r.t)
                                 : r \in { tftp_reopen(t6, open_rc) } })
                  ELSE tftp_send_packet(t1)
    ELSE IF fail THEN tftp_done(t, ETIMEDOUT)
         ELSE tftp_send_packet(t)

----------------------------------------------------------------------------
(* Option processing *)

NUL == "NUL"

tftp_process_blksize(t, value) ==
    The({ IF r.end # << >>
          THEN Ret([t EXCEPT !.blksize = r.val], ETFTP_INVALID_BLKSIZE)
          ELSE Ret([t EXCEPT !.blksize = r.val], OK)
          : r \in { strtoul(value, 10) } })

\* Mutant: a tsize with a non-numeric tail is accepted
tftp_process_tsize_ignores_tail(t, value) ==
    The({ Ret([t EXCEPT !.tsize = r.val], OK) : r \in { strtoul(value, 10) } })

tftp_process_tsize(t, value) ==
    The({ IF r.end # << >>
          THEN Ret([t EXCEPT !.tsize = r.val], ETFTP_INVALID_TSIZE)
          ELSE Ret([t EXCEPT !.tsize = r.val], OK)
          : r \in { strtoul(value, 10) } })

\* inet_aton(): four numbers of at most 255 separated by dots
RECURSIVE inet_aton(_, _)
inet_aton(s, parts) ==
    The({ IF r.val > 255 \/ Len(r.end) = Len(s) THEN FALSE
          ELSE IF parts = 1 THEN r.end = << >>
          ELSE r.end # << >> /\ Head(r.end) = "." /\ inet_aton(Tail(r.end), parts - 1)
          : r \in { strtoul(s, 0) } })

\* Mutant: a client that is not the master keeps TFTP_FL_SEND_ACK
tftp_process_multicast_keeps_ack(t, value, open_rc) ==
    LET c1 == strchr(value, ",") IN
    IF c1 = 0 THEN Ret(t, ETFTP_MC_NO_PORT)
    ELSE
    LET addr == SubSeq(value, 1, c1 - 1)
        rest == SubSeq(value, c1 + 1, Len(value))
        c2 == strchr(rest, ",")
    IN
    IF c2 = 0 THEN Ret(t, ETFTP_MC_NO_MC)
    ELSE
    LET port == SubSeq(rest, 1, c2 - 1)
        mc == SubSeq(rest, c2 + 1, Len(rest))
    IN
    The({ IF m.end # << >> THEN Ret(t, ETFTP_MC_INVALID_MC)
          ELSE IF addr # << >> /\ port # << >>
          THEN IF ~ inet_aton(addr, 4) THEN Ret(t, ETFTP_MC_INVALID_IP)
               ELSE The({ IF pp.end # << >> THEN Ret(t, ETFTP_MC_INVALID_PORT)
                          ELSE tftp_reopen_mc(t, pp.val % BLOCK16, open_rc)
                          : pp \in { strtoul(port, 0) } })
          ELSE Ret(t, OK)
          : m \in { strtoul(mc, 0) } })

tftp_process_multicast(t, value, open_rc) ==
    LET c1 == strchr(value, ",") IN
    IF c1 = 0 THEN Ret(t, ETFTP_MC_NO_PORT)
    ELSE
    LET addr == SubSeq(value, 1, c1 - 1)
        rest == SubSeq(value, c1 + 1, Len(value))
        c2 == strchr(rest, ",")
    IN
    IF c2 = 0 THEN Ret(t, ETFTP_MC_NO_MC)
    ELSE
    LET port == SubSeq(rest, 1, c2 - 1)
        mc == SubSeq(rest, c2 + 1, Len(rest))
    IN
    The({ LET t1 == IF m.val = 0 THEN [t EXCEPT !.flags = @ \ {SEND_ACK}] ELSE t
          IN  IF m.end # << >> THEN Ret(t1, ETFTP_MC_INVALID_MC)
              ELSE IF addr # << >> /\ port # << >>
              THEN IF ~ inet_aton(addr, 4) THEN Ret(t1, ETFTP_MC_INVALID_IP)
                   ELSE The({ IF pp.end # << >> THEN Ret(t1, ETFTP_MC_INVALID_PORT)
                              ELSE tftp_reopen_mc(t1, pp.val % BLOCK16, open_rc)
                              : pp \in { strtoul(port, 0) } })
              ELSE Ret(t1, OK)
          : m \in { strtoul(mc, 0) } })

OPT_BLKSIZE == << "b", "l", "k", "s", "i", "z", "e" >>
OPT_TSIZE == << "t", "s", "i", "z", "e" >>
OPT_MULTICAST == << "m", "u", "l", "t", "i", "c", "a", "s", "t" >>

tftp_process_option(t, name, value, open_rc) ==
    IF strcasecmp_eq(name, OPT_BLKSIZE) THEN tftp_process_blksize(t, value)
    ELSE IF strcasecmp_eq(name, OPT_TSIZE) THEN tftp_process_tsize(t, value)
    ELSE IF strcasecmp_eq(name, OPT_MULTICAST) THEN tftp_process_multicast(t, value, open_rc)
    ELSE Ret(t, OK)

\* strnlen() of the string that starts at index pos of data (1-based)
strnlen(data, pos) ==
    LET nul == strchr(SubSeq(data, pos, Len(data)), NUL)
    IN  IF nul = 0 THEN Len(data) + 1 - pos ELSE nul - 1

\* the option loop of tftp_rx_oack(); name is the index of the next option
RECURSIVE tftp_rx_oack_options(_, _, _, _)
tftp_rx_oack_options(t, data, name, open_rc) ==
    LET end == Len(data) + 1 IN
    IF ~ (name < end) THEN Ret(t, OK)
    ELSE
    LET value == name + strnlen(data, name) + 1 IN
    IF value > end \/ value = end THEN Ret(t, OK)
    ELSE
    LET next == value + strnlen(data, value) + 1 IN
    IF next > end THEN Ret(t, OK)
    ELSE
    The({ IF r.rc # OK THEN r
          ELSE tftp_rx_oack_options(r.t, data, next, open_rc)
          : r \in { tftp_process_option(t, SubSeq(data, name, value - 2),
                                        SubSeq(data, value, next - 2), open_rc) } })

tftp_rx_oack(t, pkt, open_rc, resize_rc) ==
    The({ IF r.rc # OK THEN tftp_done(r.t, r.rc)
          ELSE IF r.t.tsize # 0
          THEN The({ IF p.t.crashed THEN p.t
                     ELSE IF p.rc # OK THEN tftp_done(p.t, p.rc)
                     ELSE tftp_send_packet(p.t)
                     : p \in { tftp_presize(r.t, r.t.tsize, resize_rc) } })
          ELSE tftp_send_packet(r.t)
          : r \in { tftp_rx_oack_options(t, pkt.data, 1, open_rc) } })

----------------------------------------------------------------------------
(* Packet handlers.  A packet is a record: op is the opcode; short marks a  *)
(* packet that is shorter than the header of its kind; block and len are    *)
(* the wire block number and payload length of DATA; errcode is the code of *)
(* ERROR; data is the option area of OACK.                                  *)

\* the full block index of the DATA packet with wire block number b16,
\* given g, the first gap of the bitmap
tftp_rx_data_block(g, b16) ==
    LET window == ((g + 1) \div BLOCK16) * BLOCK16
    IN  window + b16 - 1

\* the DATA packet is block 0 of the first window
tftp_rx_data_block0(g, b16) ==
    b16 = 0 /\ ((g + 1) \div BLOCK16) * BLOCK16 = 0

\* Mutant: the transfer finishes on the first block shorter than blksize
tftp_rx_data_received_short_ends(t, block, offset, data_len, resize_rc) ==
    The({ IF p.t.crashed THEN p.t
          ELSE IF p.rc # OK THEN tftp_done(p.t, p.rc)
          ELSE The({ IF data_len < t2.blksize THEN tftp_done(t2, OK) ELSE t2
                     : t2 \in { tftp_send_packet(
                           [p.t EXCEPT !.bitmap = bitmap_set(@, block),
                                       !.oob = @ \/ block >= p.t.bitmap.length]) } })
          : p \in { tftp_presize(t, offset + data_len, resize_rc) } })

\* Mutant: the transfer is finished before the last block is acknowledged
tftp_rx_data_received_done_first(t, block, offset, data_len, resize_rc) ==
    The({ IF p.t.crashed THEN p.t
          ELSE IF p.rc # OK THEN tftp_done(p.t, p.rc)
          ELSE The({ IF bitmap_full(t2.bitmap) THEN tftp_send_packet(tftp_done(t2, OK))
                     ELSE tftp_send_packet(t2)
                     : t2 \in { [p.t EXCEPT !.bitmap = bitmap_set(@, block),
                                            !.oob = @ \/ block >= p.t.bitmap.length] } })
          : p \in { tftp_presize(t, offset + data_len, resize_rc) } })

\* the rest of tftp_rx_data() once the payload has been delivered
\* downstream: presize, mark, acknowledge, finish
tftp_rx_data_received(t, block, offset, data_len, resize_rc) ==
    The({ IF p.t.crashed THEN p.t
          ELSE IF p.rc # OK THEN tftp_done(p.t, p.rc)
          ELSE The({ IF bitmap_full(t2.bitmap) THEN tftp_done(t2, OK) ELSE t2
                     : t2 \in { tftp_send_packet(
                           [p.t EXCEPT !.bitmap = bitmap_set(@, block),
                                       !.oob = @ \/ block >= p.t.bitmap.length]) } })
          : p \in { tftp_presize(t, offset + data_len, resize_rc) } })

\* Mutant: an overlength payload is delivered like any other
tftp_rx_data_any_length(t, pkt, deliver_rc, resize_rc) ==
    IF pkt.short THEN tftp_done(t, EINVAL)
    ELSE IF tftp_rx_data_block0(bitmap_first_gap(t.bitmap), pkt.block)
    THEN tftp_done(t, EINVAL)
    ELSE LET block == tftp_rx_data_block(bitmap_first_gap(t.bitmap), pkt.block)
             offset == block * t.blksize
             data_len == pkt.len
             t1 == Emit(t, Fx("write", offset, data_len, deliver_rc))
         IN  IF deliver_rc # OK THEN tftp_done(t1, deliver_rc)
             ELSE tftp_rx_data_received(t1, block, offset, data_len, resize_rc)

\* deliver_rc: the result of delivering the payload downstream
tftp_rx_data(t, pkt, deliver_rc, resize_rc) ==
    IF pkt.short THEN tftp_done(t, EINVAL)
    ELSE IF tftp_rx_data_block0(bitmap_first_gap(t.bitmap), pkt.block)
    THEN tftp_done(t, EINVAL)
    ELSE LET block == tftp_rx_data_block(bitmap_first_gap(t.bitmap), pkt.block)
             offset == block * t.blksize
             data_len == pkt.len
         IN  IF data_len > t.blksize THEN tftp_done(t, EINVAL)
             ELSE LET t1 == Emit(t, Fx("write", offset, data_len, deliver_rc))
                  IN  IF deliver_rc # OK THEN tftp_done(t1, deliver_rc)
                      ELSE tftp_rx_data_received(t1, block, offset, data_len, resize_rc)

\* Mutant: "access violation" is not told apart from the other codes
tftp_errors_no_eacces(err) ==
    CASE err = 1 -> ENOENT
      [] err = 4 -> ENOTSUP
      [] OTHER -> OK

tftp_errors(err) ==
    CASE err = 1 -> ENOENT
      [] err = 2 -> EACCES
      [] err = 4 -> ENOTSUP
      [] OTHER -> OK

tftp_rx_error(t, pkt) ==
    IF pkt.short THEN t
    ELSE LET rc0 == IF pkt.errcode < 5 THEN tftp_errors(pkt.errcode) ELSE OK
             rc == IF rc0 = OK THEN ENOTSUP ELSE rc0
         IN  tftp_done(t, rc)

\* src: the source address of the packet, 0 if the packet carries none
tftp_rx(t, pkt, src, open_rc, deliver_rc, resize_rc) ==
    IF pkt.op = "RUNT" THEN t
    ELSE IF src = 0 THEN t
    ELSE IF t.peer # 0 /\ t.peer # src THEN t
    ELSE LET t1 == IF t.peer = 0 THEN [t EXCEPT !.peer = src] ELSE t
         IN  CASE pkt.op = "OACK" -> tftp_rx_oack(t1, pkt, open_rc, resize_rc)
               [] pkt.op = "DATA" -> tftp_rx_data(t1, pkt, deliver_rc, resize_rc)
               [] pkt.op = "ERROR" -> tftp_rx_error(t1, pkt)
               [] OTHER -> t1

tftp_socket_deliver_iob(t, pkt, src, open_rc, deliver_rc, resize_rc) ==
    tftp_rx([t EXCEPT !.flags = @ \cup {SEND_ACK}], pkt, src, open_rc, deliver_rc, resize_rc)

tftp_mc_socket_deliver_iob(t, pkt, src, open_rc, deliver_rc, resize_rc) ==
    tftp_rx(t, pkt, src, open_rc, deliver_rc, resize_rc)

tftp_xfer_close(t, rc) == tftp_done(t, rc)

\* multicast: the port of the multicast address to listen on, 0 for none;
\* a failed open ends in tftp_done() and the request is never handed out
tftp_core_open(default_port, multicast, flags, open_rc, mc_open_rc) ==
    LET t0 == [Work(TftpZero) EXCEPT !.blksize = TFTP_DEFAULT_BLKSIZE,
                                     !.flags = flags,
                                     !.port = default_port]
    IN  The({ IF r.rc # OK THEN Ret(tftp_done(r.t, r.rc), r.rc)
              ELSE The({ IF m.rc # OK THEN Ret(tftp_done(m.t, m.rc), m.rc)
                         ELSE Ret([start_timer_nodelay(m.t) EXCEPT !.xfer.plugged = TRUE], OK)
                         : m \in { IF multicast # 0
                                   THEN tftp_reopen_mc(r.t, multicast, mc_open_rc)
                                   ELSE Ret(r.t, OK) } })
              : r \in { tftp_reopen(t0, open_rc) } })

tftp_open(open_rc) ==
    tftp_core_open(TFTP_PORT, 0, {RRQ_SIZES}, open_rc, OK)

tftm_open(open_rc) ==
    tftp_core_open(TFTP_PORT, 0, {RRQ_SIZES, RRQ_MULTICAST}, open_rc, OK)

mtftp_open(open_rc, mc_open_rc) ==
    tftp_core_open(MTFTP_PORT, tftp_mtftp_socket, {MTFTP_RECOVERY}, open_rc, mc_open_rc)

tftp_set_request_blksize(blksize) ==
    IF blksize < TFTP_DEFAULT_BLKSIZE THEN TFTP_DEFAULT_BLKSIZE ELSE blksize

----------------------------------------------------------------------------
(* Inputs *)

Str1024 == << "1", "0", "2", "4" >>
Str2048 == << "2", "0", "4", "8" >>
Str700 == << "7", "0", "0" >>
Str0 == << "0" >>
Str8 == << "8" >>
Str512x == << "5", "1", "2", "x" >>
StrMcNonMaster == << "2", "3", "9", ".", "1", ".", "1", ".", "1", ",", "3", "0", "0", "1", ",", "0" >>
StrMcMaster == << ",", ",", "1" >>
StrFoo == << "f", "o", "o" >>

Opt(name, value) == name \o << NUL >> \o value \o << NUL >>

Pkt(op, short, block, len, errcode, data) ==
    [op |-> op, short |-> short, block |-> block, len |-> len,
     errcode |-> errcode, data |-> data]

NoPkt == Pkt("NONE", FALSE, 0, 0, 0, << >>)

Oack(data) == Pkt("OACK", FALSE, 0, 0, 0, data)

OackPkts ==
    { Oack(Opt(OPT_BLKSIZE, Str1024) \o Opt(OPT_TSIZE, Str2048)),
      Oack(Opt(OPT_TSIZE, Str700)),
      Oack(Opt(OPT_BLKSIZE, Str0) \o Opt(OPT_TSIZE, Str700)),
      Oack(Opt(OPT_BLKSIZE, Str8)),
      Oack(Opt(OPT_BLKSIZE, Str512x) \o Opt(OPT_TSIZE, Str700)),
      Oack(Opt(OPT_MULTICAST, StrMcNonMaster)) }

DataLens == {0, 512}

Data(b, l) == Pkt("DATA", FALSE, b, l, 0, << >>)

DataPkts ==
    { Data(b, l) : b \in 0..MaxWireBlock, l \in DataLens }
    \cup { Pkt("DATA", TRUE, 0, 0, 0, << >>) }

ErrorCodes == {1, 7}

ErrorPkts ==
    { Pkt("ERROR", FALSE, 0, 0, c, << >>) : c \in ErrorCodes }
    \cup { Pkt("ERROR", TRUE, 0, 0, 0, << >>) }

OtherPkts == { Pkt("RUNT", TRUE, 0, 0, 0, << >>), Pkt("ACK", FALSE, 0, 0, 0, << >>) }

Packets == OackPkts \cup DataPkts \cup ErrorPkts \cup OtherPkts

\* what a host other than the server sends
StrayPkts == { Data(1, 512), Oack(Opt(OPT_TSIZE, Str700)) }

\* what arrives without a source address, or after the request has finished
LatePkts == { Data(1, 512) }

\* source addresses: 1 is the server, 2 another host, 0 stands for a packet
\* without source address
Sources == {0, 1, 2}

OpenRcs == {OK, EHOSTUNREACH}
DeliverRcs == {OK, EIO}
ResizeRcs == {OK, ENOMEM}
CloseRcs == {OK, ECANCELED}
RequestBlksizes == {8, 1024}
McPorts == {3001, 4001}

Event(type, sock, src, pkt, fail) ==
    [type |-> type, sock |-> sock, src |-> src, pkt |-> pkt, fail |-> fail]

NoEvent == Event("none", "", 0, NoPkt, FALSE)

\* the statuses with which the handler's effects closed the downstream sink
RECURSIVE SinkCloses(_)
SinkCloses(s) ==
    IF s = << >> THEN << >>
    ELSE (IF Head(s).k = "xfer" /\ Head(s).b = 1 THEN << Head(s).rc >> ELSE << >>)
         \o SinkCloses(Tail(s))

Live(t) == ~ t.xfer.nullified /\ ~ t.crashed

----------------------------------------------------------------------------
(* State machine *)

Init ==
    /\ tftp = TftpZero
    /\ opened = FALSE
    /\ fx = << >>
    /\ ev = NoEvent
    /\ tftp_request_blksize = TFTP_MAX_BLKSIZE
    /\ tftp_mtftp_socket = MTFTP_DEFAULT_MC_PORT
    /\ closes = << >>
    /\ file = 0

\* the handler has left the working record w behind
Handled(result, e) ==
    \E w \in {result} :
    /\ tftp' = Request(w)
    /\ fx' = w.fx
    /\ ev' = e
    /\ closes' = closes \o SinkCloses(w.fx)
    /\ UNCHANGED << opened, tftp_request_blksize, tftp_mtftp_socket, file >>

SetRequestBlksize ==
    /\ \E b \in RequestBlksizes : tftp_request_blksize' = tftp_set_request_blksize(b)
    /\ UNCHANGED << tftp, opened, fx, ev, tftp_mtftp_socket, closes, file >>

SetMtftpPort ==
    /\ \E p \in McPorts : tftp_mtftp_socket' = p
    /\ UNCHANGED << tftp, opened, fx, ev, tftp_request_blksize, closes, file >>

Open ==
    /\ ~ opened
    /\ tftp = TftpZero
    /\ \E mode \in {"tftp", "tftm", "mtftp"}, open_rc \in OpenRcs, mc_open_rc \in OpenRcs :
         /\ mode # "mtftp" => mc_open_rc = OK
         /\ \E r \in { CASE mode = "tftp" -> tftp_open(open_rc)
                          [] mode = "tftm" -> tftm_open(open_rc)
                          [] mode = "mtftp" -> mtftp_open(open_rc, mc_open_rc) } :
                /\ tftp' = Request(r.t)
                /\ fx' = r.t.fx
                /\ opened' = (r.rc = OK)
                /\ ev' = Event("open", mode, 0, NoPkt, FALSE)
    /\ UNCHANGED << tftp_request_blksize, tftp_mtftp_socket, closes, file >>

TimerExpired ==
    /\ opened
    /\ tftp.timer = "running"
    /\ ~ tftp.crashed
    /\ \E fail \in BOOLEAN, open_rc \in OpenRcs :
         /\ (MTFTP_RECOVERY \notin tftp.flags) => open_rc = OK
         /\ Handled(tftp_timer_expired(stop_timer(Work(tftp)), fail, open_rc),
                    Event("timer", "", 0, NoPkt, fail))

\* what an MTFTP server sends: it negotiates no block size
MtftpPkts == (Packets \ OackPkts) \cup { Oack(Opt(OPT_TSIZE, Str700)) }

\* the packets that can arrive on a socket from a source; a host that is
\* not the peer of the request sends no more than a stray host does
Arrivals(sock, src) ==
    IF tftp[sock].nullified THEN (IF src = 1 THEN LatePkts ELSE {})
    ELSE IF ~ tftp[sock].plugged THEN {}
    ELSE CASE src = 0 -> LatePkts
           [] src = 1 /\ tftp.peer \in {0, 1} ->
                IF MTFTP_RECOVERY \in tftp.flags THEN MtftpPkts ELSE Packets
           [] OTHER -> StrayPkts

\* the socket's deliver_iob method is called with a packet; an interface
\* that has been nullified ignores it
Rx(sock, src, pkt, open_rc, deliver_rc, resize_rc) ==
    LET w == Work(tftp)
        e == Event("rx", sock, src, pkt, FALSE)
    IN  IF tftp[sock].nullified THEN Handled(w, e)
        ELSE IF sock = "socket"
        THEN Handled(tftp_socket_deliver_iob(w, pkt, src, open_rc, deliver_rc, resize_rc), e)
        ELSE Handled(tftp_mc_socket_deliver_iob(w, pkt, src, open_rc, deliver_rc, resize_rc), e)

\* a packet arrives on the unicast or the multicast socket
Deliver ==
    /\ opened
    /\ ~ tftp.crashed
    /\ \E sock \in {"socket", "mc_socket"}, src \in Sources :
       \E pkt \in Arrivals(sock, src) :
       \E open_rc \in (IF pkt.op = "OACK" THEN OpenRcs ELSE {OK}),
          deliver_rc \in (IF pkt.op = "DATA" THEN DeliverRcs ELSE {OK}),
          resize_rc \in (IF pkt.op \in {"DATA", "OACK"} THEN ResizeRcs ELSE {OK}) :
         Rx(sock, src, pkt, open_rc, deliver_rc, resize_rc)

\* the downstream sink closes the transfer
XferClose ==
    /\ opened
    /\ tftp.xfer.plugged
    /\ ~ tftp.crashed
    /\ \E rc \in CloseRcs :
         \E w \in {tftp_xfer_close(Work(tftp), rc)} :
             /\ tftp' = Request(w)
             /\ fx' = w.fx
             /\ ev' = Event("close", "", 0, NoPkt, FALSE)
    /\ UNCHANGED << opened, tftp_request_blksize, tftp_mtftp_socket, closes, file >>

Next ==
    \/ Open
    \/ TimerExpired
    \/ Deliver
    \/ XferClose

Spec == Init /\ [][Next]_vars

----------------------------------------------------------------------------
(* A valid download: an honest server holds a file of `file` bytes, answers *)
(* the RRQ with an OACK or not at all, and sends the blocks of the file, in *)
(* any order and any number of times.                                       *)

Files == {0, 512, 700, 1024, 1536}

\* the number of blocks of a file, the trailing short or empty one included
NumBlocks(f, blksize) == (f \div blksize) + 1

\* the payload length of block index i of the file
BlockLen(f, blksize, i) == IF (i + 1) * blksize <= f THEN blksize ELSE f - i * blksize

StrOf(n) ==
    CASE n = 0 -> Str0
      [] n = 512 -> << "5", "1", "2" >>
      [] n = 700 -> Str700
      [] n = 1024 -> Str1024
      [] n = 1536 -> << "1", "5", "3", "6" >>
      [] n = 2048 -> Str2048

\* the OACKs an honest server answers with
ValidOacks(f) ==
    { Oack(Opt(OPT_TSIZE, StrOf(f))),
      Oack(Opt(OPT_BLKSIZE, Str1024) \o Opt(OPT_TSIZE, StrOf(f))) }

InitValid ==
    /\ \E f \in Files : file = f
    /\ tftp = Request(tftp_open(OK).t)
    /\ opened = TRUE
    /\ fx = << >>
    /\ ev = NoEvent
    /\ tftp_request_blksize = TFTP_MAX_BLKSIZE
    /\ tftp_mtftp_socket = MTFTP_DEFAULT_MC_PORT
    /\ closes = << >>

ValidTimer ==
    /\ tftp.timer = "running"
    /\ Handled(tftp_timer_expired(stop_timer(Work(tftp)), FALSE, OK),
               Event("timer", "", 0, NoPkt, FALSE))

ValidOack ==
    /\ Live(tftp)
    /\ tftp.peer = 0
    /\ \E pkt \in ValidOacks(file) : Rx("socket", 1, pkt, OK, OK, OK)

ValidData ==
    /\ Live(tftp)
    /\ \E i \in 0..(NumBlocks(file, tftp.blksize) - 1) :
         Rx("socket", 1, Data((i + 1) % BLOCK16, BlockLen(file, tftp.blksize, i)), OK, OK, OK)

NextValid == ValidTimer \/ ValidOack \/ ValidData

SpecValid == InitValid /\ [][NextValid]_vars

----------------------------------------------------------------------------
(* A download of a large file around the point where the 16-bit block      *)
(* number of the wire wraps: the request has received the first g blocks   *)
(* of the file in order, with blocks of TFTP_DEFAULT_BLKSIZE bytes, and    *)
(* blocks near g arrive.                                                    *)

\* how far from the wrap point the download starts, and how far from the
\* first gap the arriving blocks are
WinSpan == 2

\* tftp_open(), then blocks 0 .. g-1 from server 1
WinRequest(g) ==
    [ Request(tftp_open(OK).t) EXCEPT
        !.peer = 1,
        !.flags = {SEND_ACK, RRQ_SIZES},
        !.filesize = g * TFTP_DEFAULT_BLKSIZE,
        !.bitmap = [length |-> g + 1, first_gap |-> g, bits |-> {}] ]

InitWin ==
    /\ \E g \in (BLOCK16 - WinSpan)..(BLOCK16 + WinSpan) : tftp = WinRequest(g)
    /\ opened = TRUE
    /\ fx = << >>
    /\ ev = NoEvent
    /\ tftp_request_blksize = TFTP_MAX_BLKSIZE
    /\ tftp_mtftp_socket = MTFTP_DEFAULT_MC_PORT
    /\ closes = << >>
    /\ file = 0

\* the server sends block index B of the file, full or empty; the blocks
\* it sends lie within 2 * WinSpan of the wrap point
WinData ==
    /\ Live(tftp)
    /\ \E d \in (0 - WinSpan)..WinSpan, len \in {0, TFTP_DEFAULT_BLKSIZE} :
         LET B == bitmap_first_gap(tftp.bitmap) + d
         IN  /\ B >= BLOCK16 - 2 * WinSpan
             /\ B <= BLOCK16 + 2 * WinSpan
             /\ Rx("socket", 1, Data((B + 1) % BLOCK16, len), OK, OK, OK)

WinTimer ==
    /\ Live(tftp)
    /\ tftp.timer = "running"
    /\ Handled(tftp_timer_expired(stop_timer(Work(tftp)), FALSE, OK),
               Event("timer", "", 0, NoPkt, FALSE))

NextWin == WinData \/ WinTimer

SpecWin == InitWin /\ [][NextWin]_vars

----------------------------------------------------------------------------
(* A server that negotiates again in the middle of a transfer: OACKs that  *)
(* change the block size arrive between the DATA packets of a TFTP or an   *)
(* MTFTP request.  Nothing fails.                                           *)

ResizeOacks ==
    { Oack(Opt(OPT_BLKSIZE, Str1024) \o Opt(OPT_TSIZE, Str700)),
      Oack(Opt(OPT_BLKSIZE, Str8)),
      Oack(Opt(OPT_TSIZE, Str700)) }

InitResize ==
    /\ tftp_request_blksize = TFTP_MAX_BLKSIZE
    /\ tftp_mtftp_socket = MTFTP_DEFAULT_MC_PORT
    /\ \E r \in { tftp_open(OK), mtftp_open(OK, OK) } : tftp = Request(r.t)
    /\ opened = TRUE
    /\ fx = << >>
    /\ ev = NoEvent
    /\ closes = << >>
    /\ file = 0

ResizeOack ==
    /\ Live(tftp)
    /\ \E pkt \in ResizeOacks : Rx("socket", 1, pkt, OK, OK, OK)

ResizeData ==
    /\ Live(tftp)
    /\ \E b \in 1..MaxWireBlock, l \in DataLens : Rx("socket", 1, Data(b, l), OK, OK, OK)

ResizeTimer ==
    /\ Live(tftp)
    /\ tftp.timer = "running"
    /\ Handled(tftp_timer_expired(stop_timer(Work(tftp)), FALSE, OK),
               Event("timer", "", 0, NoPkt, FALSE))

NextResize == ResizeOack \/ ResizeData \/ ResizeTimer

SpecResize == InitResize /\ [][NextResize]_vars

----------------------------------------------------------------------------
(* A server whose DATA packets reach a plain TFTP request in any order:     *)
(* wire blocks 1..MaxOrderBlock, each full or empty.  Nothing fails.        *)

MaxOrderBlock == 4

InitOrder ==
    /\ tftp_request_blksize = TFTP_MAX_BLKSIZE
    /\ tftp_mtftp_socket = MTFTP_DEFAULT_MC_PORT
    /\ tftp = Request(tftp_open(OK).t)
    /\ opened = TRUE
    /\ fx = << >>
    /\ ev = NoEvent
    /\ closes = << >>
    /\ file = 0

OrderData ==
    /\ Live(tftp)
    /\ \E b \in 1..MaxOrderBlock, l \in DataLens : Rx("socket", 1, Data(b, l), OK, OK, OK)

OrderTimer ==
    /\ Live(tftp)
    /\ tftp.timer = "running"
    /\ Handled(tftp_timer_expired(stop_timer(Work(tftp)), FALSE, OK),
               Event("timer", "", 0, NoPkt, FALSE))

NextOrder == OrderData \/ OrderTimer

SpecOrder == InitOrder /\ [][NextOrder]_vars

----------------------------------------------------------------------------
(* A TFTM request: the server answers the RRQ on the unicast socket with an *)
(* OACK that makes the client the master client or not, and sends DATA on   *)
(* the unicast and on the multicast socket.                                 *)

OackNonMaster == Oack(Opt(OPT_MULTICAST, StrMcNonMaster))
OackMaster == Oack(Opt(OPT_MULTICAST, StrMcMaster))

TftmOacks ==
    { OackNonMaster, OackMaster,
      Oack(Opt(OPT_TSIZE, Str700) \o Opt(OPT_MULTICAST, StrMcNonMaster)) }

InitTftm ==
    /\ tftp_request_blksize = TFTP_MAX_BLKSIZE
    /\ tftp_mtftp_socket = MTFTP_DEFAULT_MC_PORT
    /\ tftp = Request(tftm_open(OK).t)
    /\ opened = TRUE
    /\ fx = << >>
    /\ ev = NoEvent
    /\ closes = << >>
    /\ file = 0

TftmOack ==
    /\ Live(tftp)
    /\ \E pkt \in TftmOacks, open_rc \in OpenRcs : Rx("socket", 1, pkt, open_rc, OK, OK)

TftmData ==
    /\ Live(tftp)
    /\ \E sock \in {"socket", "mc_socket"}, b \in 1..MaxWireBlock, l \in DataLens :
         /\ tftp[sock].plugged
         /\ Rx(sock, 1, Data(b, l), OK, OK, OK)

TftmTimer ==
    /\ Live(tftp)
    /\ tftp.timer = "running"
    /\ \E fail \in BOOLEAN :
         Handled(tftp_timer_expired(stop_timer(Work(tftp)), fail, OK),
                 Event("timer", "", 0, NoPkt, fail))

NextTftm == TftmOack \/ TftmData \/ TftmTimer

SpecTftm == InitTftm /\ [][NextTftm]_vars

----------------------------------------------------------------------------
(* A server that gives up: an ERROR packet with any code reaches a TFTP, a  *)
(* TFTM or an MTFTP request, as the first answer or after DATA, from the    *)
(* server or from another host.                                             *)

MaxErrCode == 8

Error(c) == Pkt("ERROR", FALSE, 0, 0, c, << >>)

InitError ==
    /\ tftp_request_blksize = TFTP_MAX_BLKSIZE
    /\ tftp_mtftp_socket = MTFTP_DEFAULT_MC_PORT
    /\ \E r \in { tftp_open(OK), tftm_open(OK), mtftp_open(OK, OK) } : tftp = Request(r.t)
    /\ opened = TRUE
    /\ fx = << >>
    /\ ev = NoEvent
    /\ closes = << >>
    /\ file = 0

ErrorData ==
    /\ Live(tftp)
    /\ \E sock \in {"socket", "mc_socket"}, l \in DataLens :
         /\ tftp[sock].plugged
         /\ Rx(sock, 1, Data(1, l), OK, OK, OK)

ErrorRx ==
    /\ Live(tftp)
    /\ \E sock \in {"socket", "mc_socket"}, src \in {1, 2},
          c \in (0..MaxErrCode) \cup {BLOCK16 - 1} :
         /\ tftp[sock].plugged
         /\ Rx(sock, src, Error(c), OK, OK, OK)

NextError == ErrorData \/ ErrorRx

SpecError == InitError /\ [][NextError]_vars

----------------------------------------------------------------------------
(* The tunables change while a request is live: the request was opened     *)
(* under the default block size and multicast port, and                     *)
(* tftp_set_request_blksize() and tftp_set_mtftp_port() are called between  *)
(* its timer expiries and packets.                                          *)

InitTunables ==
    /\ tftp_request_blksize = TFTP_MAX_BLKSIZE
    /\ tftp_mtftp_socket = MTFTP_DEFAULT_MC_PORT
    /\ \E r \in { tftp_open(OK), tftm_open(OK), mtftp_open(OK, OK) } : tftp = Request(r.t)
    /\ opened = TRUE
    /\ fx = << >>
    /\ ev = NoEvent
    /\ closes = << >>
    /\ file = 0

TunablesTimer ==
    /\ Live(tftp)
    /\ tftp.timer = "running"
    /\ Handled(tftp_timer_expired(stop_timer(Work(tftp)), FALSE, OK),
               Event("timer", "", 0, NoPkt, FALSE))

TunablesData ==
    /\ Live(tftp)
    /\ \E sock \in {"socket", "mc_socket"}, l \in DataLens :
         /\ tftp[sock].plugged
         /\ Rx(sock, 1, Data(1, l), OK, OK, OK)

NextTunables == SetRequestBlksize \/ SetMtftpPort \/ TunablesTimer \/ TunablesData

SpecTunables == InitTunables /\ [][NextTunables]_vars

----------------------------------------------------------------------------
(* A server whose OACKs carry options that are invalid, unknown, or spelled *)
(* in upper case, followed by a valid option that must not be processed.    *)
(* The OACK reaches a TFTP, a TFTM or an MTFTP request on the unicast       *)
(* socket, as the first answer or after DATA.                               *)

OackOptions ==
    [ blksize_tail  |-> Opt(<< "B", "l", "k", "S", "i", "z", "e" >>, Str512x)
                        \o Opt(OPT_TSIZE, Str700),
      tsize_tail    |-> Opt(<< "T", "S", "I", "Z", "E" >>, << "7", "x" >>)
                        \o Opt(OPT_BLKSIZE, Str1024),
      mc_no_port    |-> Opt(OPT_MULTICAST, << "2", "3", "9", ".", "1", ".", "1", ".", "1" >>)
                        \o Opt(OPT_TSIZE, Str700),
      mc_no_mc      |-> Opt(OPT_MULTICAST, << "2", "3", "9", ".", "1", ".", "1", ".", "1", ",",
                                             "3", "0", "0", "1" >>)
                        \o Opt(OPT_TSIZE, Str700),
      mc_invalid_mc |-> Opt(<< "M", "U", "L", "T", "I", "C", "A", "S", "T" >>, << ",", ",", "x" >>)
                        \o Opt(OPT_TSIZE, Str700),
      mc_invalid_ip |-> Opt(OPT_MULTICAST, << "2", "x", ",", "3", "0", "0", "1", ",", "1" >>)
                        \o Opt(OPT_TSIZE, Str700),
      mc_invalid_port |-> Opt(OPT_MULTICAST, << "2", "3", "9", ".", "1", ".", "1", ".", "1", ",",
                                               "3", "0", "x", ",", "1" >>)
                          \o Opt(OPT_TSIZE, Str700),
      unknown       |-> Opt(StrFoo, Str512x) \o Opt(<< "b", "l", "k" >>, Str8),
      valid         |-> Opt(<< "T", "S", "I", "Z", "E" >>, Str700) ]

OackRx ==
    /\ Live(tftp)
    /\ \E k \in DOMAIN OackOptions : Rx("socket", 1, Oack(OackOptions[k]), OK, OK, OK)

NextOack == OackRx \/ ErrorData

SpecOack == InitError /\ [][NextOack]_vars

----------------------------------------------------------------------------
(* Progress.  The retry timer of a live request is running and a running    *)
(* timer expires; the timer backs off at every expiry and reports failure   *)
(* once the timeout has passed its maximum, so an expiry that reports       *)
(* failure cannot be put off for ever: weak fairness of LiveTimer(TRUE).    *)
(* The server may send DATA and the OACK of a client that is not the master *)
(* at any time, or stop.  No socket open fails.                             *)

LiveRx ==
    /\ Live(tftp)
    /\ \E sock \in {"socket", "mc_socket"},
          pkt \in { Data(1, 512), Data(2, 512), OackNonMaster } :
         /\ tftp[sock].plugged
         /\ Rx(sock, 1, pkt, OK, OK, OK)

LiveTimer(fail) ==
    /\ Live(tftp)
    /\ tftp.timer = "running"
    /\ Handled(tftp_timer_expired(stop_timer(Work(tftp)), fail, OK),
               Event("timer", "", 0, NoPkt, fail))

NextLive == LiveRx \/ LiveTimer(FALSE) \/ LiveTimer(TRUE)

SpecLive == InitError /\ [][NextLive]_vars /\ WF_vars(LiveTimer(TRUE))

----------------------------------------------------------------------------
(* Properties *)

\* tftp_done() has run
Done == tftp.xfer.nullified

\* the handler that ran last called tftp_done()
DoneNow == HasKind(fx, "xfer")

\* C1: once a request has reached tftp_done(), no packet delivery and no
\* timer expiry changes any field of the request (the timer stays stopped,
\* the sockets stay closed, peer, flags, blksize, tsize, filesize and the
\* bitmap stay as they are), transmits anything, or writes or signals
\* anything to the downstream sink.
C1_NoEffectAfterDone ==
    [][ Done => (tftp' = tftp /\ fx' = << >> /\ closes' = closes) ]_vars

\* a packet has been delivered to a request that had finished before
C1_Witness ==
    /\ Done
    /\ tftp.timer = "stopped"
    /\ ev.type = "rx"
    /\ fx = << >>
    /\ closes # << >>

\* C2: the downstream sink is closed at most once; the handler that calls
\* tftp_done() stops the timer and ends by closing the unicast socket, the
\* multicast socket and the downstream interface, in this order and all
\* with the same status, which is the status the sink receives.
C2_DoneOnce ==
    /\ Len(closes) <= 1
    /\ Done => /\ tftp.timer = "stopped"
               /\ ~ tftp.socket.plugged /\ ~ tftp.mc_socket.plugged /\ ~ tftp.xfer.plugged
               /\ tftp.socket.nullified /\ tftp.mc_socket.nullified
    /\ DoneNow =>
         LET n == Len(fx) IN
         /\ Done
         /\ n >= 3
         /\ Kinds(SubSeq(fx, n - 2, n)) = << "socket", "mc_socket", "xfer" >>
         /\ fx[n - 2].rc = fx[n].rc /\ fx[n - 1].rc = fx[n].rc
         /\ \A i \in 1..(n - 1) : fx[i].k # "xfer"
         /\ fx[n].b = 1 => (closes = << fx[n].rc >> \/ ev.type = "close")

\* a live request with an open multicast socket has been finished with a
\* status other than 0, and the sink has received that status
C2_Witness ==
    /\ DoneNow
    /\ Len(fx) >= 3
    /\ fx[Len(fx) - 1].b = 1
    /\ closes = << ETIMEDOUT >>

\* C3: once peer is set, a packet from any other source address, on either
\* socket, changes no field of the request and causes no transmission and
\* no call on the downstream sink.
C3_WrongSourceDropped ==
    [][ (ev'.type = "rx" /\ Live(tftp) /\ tftp.peer # 0 /\ ev'.src # 0 /\ ev'.src # tftp.peer)
        => (tftp' = tftp /\ fx' = << >>) ]_vars

\* every block index below the length of the bitmap has been received
NoneMissing(bm) == \A i \in 0..(bm.length - 1) : bitmap_test(bm, i)

C7_TrailingBlockNeeded ==
    (closes = << OK >> /\ file % tftp.blksize = 0) =>
        /\ ev.type = "rx" /\ ev.pkt.op = "DATA"
        /\ file > 0 => bitmap_test(tftp.bitmap, file \div tftp.blksize)
        /\ file = 0 => ev.pkt.len = 0

\* every full-size block of such a file has been received, with the size
\* known from an OACK and without, and the request is still live
C7_WitnessLive ==
    /\ ~ Done
    /\ file = 1024 /\ tftp.blksize = 512
    /\ tftp.bitmap.first_gap = 2

\* the block index within 32767 of g whose wire block number is b16
NearestBlock(g, b16) ==
    LET d == (b16 - 1 - g) % BLOCK16
    IN  IF d < BLOCK16 \div 2 THEN g + d ELSE g + d - BLOCK16

\* C5: a DATA packet from the peer that carries the wire block number of
\* a block index B less than 32768 away from the first gap g of the bitmap
\* is written downstream at byte offset B * blksize.
C5_BlockReconstructed ==
    [][ ( /\ Live(tftp) /\ ev'.type = "rx" /\ tftp.peer # 0 /\ ev'.src = tftp.peer
          /\ ev'.pkt.op = "DATA" /\ ~ ev'.pkt.short
          /\ ev'.pkt.len <= tftp.blksize
          /\ NearestBlock(bitmap_first_gap(tftp.bitmap), ev'.pkt.block) >= 0 )
        => ( /\ HasKind(fx', "write")
             /\ fx'[IndexOfKind(fx', "write")].a =
                  NearestBlock(bitmap_first_gap(tftp.bitmap), ev'.pkt.block) * tftp.blksize ) ]_vars

\* C6: when the DATA packet that a live request has just written
\* downstream arrives again, nothing is written downstream, no size is
\* notified, and filesize and the bitmap stay as they are.
C6_DuplicateIdempotent ==
    [][ ( /\ Live(tftp) /\ ev.type = "rx" /\ ev.pkt.op = "DATA"
          /\ HasKind(fx, "write") /\ ev' = ev )
        => ( /\ ~ HasKind(fx', "write") /\ ~ HasKind(fx', "seek")
             /\ tftp'.filesize = tftp.filesize /\ tftp'.bitmap = tftp.bitmap ) ]_vars

\* C8: in the effects of a handler, a notification of the file size comes
\* before the write of the payload.
C8_SizeBeforeWrite ==
    \A i, j \in 1..Len(fx) : (fx[i].k = "write" /\ fx[j].k = "seek") => j < i

\* C9: the block size of a request that has been opened is at least 512.
C9_BlksizeAtLeast512 ==
    (opened /\ Live(tftp)) => tftp.blksize >= TFTP_DEFAULT_BLKSIZE

\* the number of blocks the spec asks the bitmap to hold
CeilBlocks(filesize, blksize) == ((filesize + blksize - 1) \div blksize) + 1

C11_FilesizeMonotone ==
    [][ /\ tftp'.filesize >= tftp.filesize
        /\ tftp'.filesize = tftp.filesize =>
             /\ ~ HasKind(fx', "seek")
             /\ ev'.type = "rx" => tftp'.bitmap.length = tftp.bitmap.length ]_vars

\* a block that ends below the known size has been written to a live request
C11_Witness ==
    /\ Live(tftp) /\ ev.type = "rx" /\ ev.pkt.op = "DATA"
    /\ HasKind(fx, "write") /\ ~ HasKind(fx, "seek")
    /\ fx[IndexOfKind(fx, "write")].a + fx[IndexOfKind(fx, "write")].b < tftp.filesize

\* the step is the fallback of an MTFTP request to plain TFTP
Fallback == MTFTP_RECOVERY \in tftp.flags /\ MTFTP_RECOVERY \notin tftp'.flags

\* C12: a block index that is marked in the bitmap stays marked over every
\* step but the MTFTP fallback, which leaves an empty bitmap.
C12_BitsStaySet ==
    [][ IF Fallback THEN tftp'.bitmap = BitmapZero
        ELSE \A i \in 0..(tftp.bitmap.length - 1) :
                bitmap_test(tftp.bitmap, i) => bitmap_test(tftp'.bitmap, i) ]_vars


\* the step is a timer expiry
TimerStep == ev'.type = "timer"

\* C13: a timer expiry of an MTFTP request whose peer is unset resends the
\* option-less RRQ to the MTFTP port the first three times; the fourth time
\* flags become exactly {RRQ_SIZES}, the multicast socket is closed, the
\* bitmap is discarded, port becomes 69, the unicast socket is closed with
\* peer unset and, the socket open succeeding, reopened towards port 69 and
\* an RRQ with the blksize and tsize options is sent (a failing socket open
\* ends the request).  No step of an opened request sets MTFTP_RECOVERY.
C13_FallbackOnFourth ==
    [][ /\ (opened /\ MTFTP_RECOVERY \in tftp'.flags) => MTFTP_RECOVERY \in tftp.flags
        /\ (TimerStep /\ MTFTP_RECOVERY \in tftp.flags /\ tftp.peer = 0) =>
             IF tftp.mtftp_timeouts < MTFTP_MAX_TIMEOUTS
             THEN /\ tftp'.flags = tftp.flags
                  /\ tftp'.mtftp_timeouts = tftp.mtftp_timeouts + 1
                  /\ tftp'.bitmap = tftp.bitmap
                  /\ Kinds(fx') = << "rrq" >>
                  /\ fx'[1].a = MTFTP_PORT /\ fx'[1].rc = "none"
             ELSE /\ tftp'.flags = {RRQ_SIZES}
                  /\ HasKind(fx', "mc_socket") /\ ~ tftp'.mc_socket.plugged
                  /\ tftp'.bitmap = BitmapZero
                  /\ tftp'.port = TFTP_PORT
                  /\ HasKind(fx', "socket") /\ tftp'.peer = 0
                  /\ IF HasKind(fx', "socket_open")
                     THEN /\ Kinds(fx') = << "mc_socket", "socket", "socket_open", "rrq" >>
                          /\ fx'[3].a = TFTP_PORT /\ tftp'.socket.plugged
                          /\ fx'[4].a = TFTP_PORT /\ fx'[4].rc = "blksize,tsize"
                          /\ Live(tftp')
                     ELSE tftp'.xfer.nullified ]_vars

C13_Witness ==
    /\ ev.type = "timer" /\ tftp.mtftp_timeouts = MTFTP_MAX_TIMEOUTS + 1
    /\ tftp.flags = {RRQ_SIZES} /\ tftp.port = TFTP_PORT /\ tftp.peer = 0
    /\ Kinds(fx) = << "mc_socket", "socket", "socket_open", "rrq" >>
    /\ fx[4].rc = "blksize,tsize"


\* C14: a timer expiry of a request without MTFTP_RECOVERY ends the request
\* with ETIMEDOUT and sends nothing when the retry timer reports failure;
\* otherwise the request stays as live as it was and exactly one packet is
\* resent: an RRQ when peer is unset, an ACK to peer when peer is set and
\* SEND_ACK is set, nothing when peer is set and SEND_ACK is clear.
C14_PlainTimer ==
    [][ (TimerStep /\ MTFTP_RECOVERY \notin tftp.flags) =>
          IF ev'.fail
          THEN /\ tftp'.xfer.nullified
               /\ ~ HasKind(fx', "rrq") /\ ~ HasKind(fx', "ack")
               /\ fx'[IndexOfKind(fx', "xfer")].rc = ETIMEDOUT
               /\ closes' = closes \o << ETIMEDOUT >>
          ELSE /\ tftp'.xfer = tftp.xfer /\ tftp'.timer = "running"
               /\ [tftp' EXCEPT !.timer = tftp.timer] = tftp
               /\ closes' = closes
               /\ Kinds(fx') = IF tftp.peer = 0 THEN << "rrq" >>
                               ELSE IF SEND_ACK \in tftp.flags THEN << "ack" >>
                               ELSE << >>
               /\ (tftp.peer # 0 /\ SEND_ACK \in tftp.flags) => fx'[1].b = tftp.peer
               /\ tftp.peer = 0 => fx'[1].a = tftp.port ]_vars

C14_WitnessFail ==
    /\ ev.type = "timer" /\ ev.fail /\ DoneNow /\ closes = << ETIMEDOUT >>

C14_Witness ==
    /\ ev.type = "timer" /\ ~ ev.fail /\ MTFTP_RECOVERY \notin tftp.flags
    /\ tftp.peer # 0 /\ Kinds(fx) = << "ack" >>


\* C15: a timer expiry of a request with MTFTP_RECOVERY and peer set closes
\* the unicast socket, unsets peer and clears SEND_ACK, and leaves
\* mtftp_timeouts, the bitmap, filesize and blksize alone; the socket open
\* succeeding, the socket is reopened, the one packet sent is an RRQ and the
\* request is not terminated, whatever the retry timer's failure indicator
\* (a failing socket open ends the request).
C15_ReopenOnTimer ==
    [][ (TimerStep /\ MTFTP_RECOVERY \in tftp.flags /\ tftp.peer # 0) =>
          /\ HasKind(fx', "socket")
          /\ tftp'.peer = 0
          /\ tftp'.flags = tftp.flags \ {SEND_ACK}
          /\ tftp'.mtftp_timeouts = tftp.mtftp_timeouts
          /\ tftp'.bitmap = tftp.bitmap
          /\ tftp'.filesize = tftp.filesize
          /\ tftp'.blksize = tftp.blksize
          /\ IF HasKind(fx', "socket_open")
             THEN /\ Kinds(fx') = << "socket", "socket_open", "rrq" >>
                  /\ fx'[2].a = tftp.port /\ fx'[3].a = tftp.port
                  /\ tftp'.socket.plugged
                  /\ tftp'.xfer = tftp.xfer /\ closes' = closes
                  /\ tftp'.timer = "running"
             ELSE tftp'.xfer.nullified ]_vars

C15_Witness ==
    /\ ev.type = "timer" /\ ev.fail /\ Live(tftp)
    /\ MTFTP_RECOVERY \in tftp.flags /\ tftp.peer = 0
    /\ tftp.filesize > 0 /\ tftp.mtftp_timeouts > 0
    /\ Kinds(fx) = << "socket", "socket_open", "rrq" >>


\* the blocks marked in the bitmap, as wire block numbers
Marked(t) == { i + 1 : i \in { j \in 0..(t.bitmap.length - 1) : bitmap_test(t.bitmap, j) } }

\* the step handles DATA with wire block number b and a payload of l bytes
\* for a request that has marked the blocks in, knows no tsize and has the
\* file size size
Arrives(b, l, in, size) ==
    /\ ev'.type = "rx" /\ ev'.pkt = Data(b, l)
    /\ SEND_ACK \in tftp'.flags
    /\ Marked(tftp) = in /\ tftp.filesize = size
    /\ tftp.blksize = TFTP_DEFAULT_BLKSIZE /\ tftp.tsize = 0

\* the step sends exactly one ACK, which carries block number n
Acks(n) ==
    /\ Cardinality({ i \in 1..Len(fx') : fx'[i].k = "ack" }) = 1
    /\ fx'[IndexOfKind(fx', "ack")].a = n

\* C16 as stated: when DATA blocks 1, 3, 2, 4 arrive in this order, block 4
\* empty, the ACKs carry the block numbers 0, 1, 1, 3 and the request ends
\* with OK after block 4.
C16_AcksAsStated ==
    [][ /\ Arrives(1, 512, {}, 0) => Acks(0) /\ Live(tftp')
        /\ Arrives(3, 512, {1}, 512) => Acks(1) /\ Live(tftp')
        /\ Arrives(2, 512, {1, 3}, 1536) => Acks(1) /\ Live(tftp')
        /\ Arrives(4, 0, {1, 2, 3}, 1536) => Acks(3) /\ closes' = << OK >> ]_vars

\* C16, amended: when DATA blocks 1, 3, 2, 4 arrive in this order, block 4
\* empty, the ACKs carry the block numbers 1, 1, 3, 4, the number of the last
\* block received in sequence, and the request ends with OK after block 4.
C16_AcksLastInSequence ==
    [][ /\ Arrives(1, 512, {}, 0) => Acks(1) /\ Live(tftp')
        /\ Arrives(3, 512, {1}, 512) => Acks(1) /\ Live(tftp')
        /\ Arrives(2, 512, {1, 3}, 1536) => Acks(3) /\ Live(tftp')
        /\ Arrives(4, 0, {1, 2, 3}, 1536) => Acks(4) /\ closes' = << OK >> ]_vars

C16_Witness ==
    /\ ev.type = "rx" /\ ev.pkt = Data(4, 0)
    /\ Marked(tftp) = {1, 2, 3, 4} /\ tftp.filesize = 1536
    /\ Kinds(fx) = << "write", "ack", "socket", "mc_socket", "xfer" >>
    /\ fx[2].a = 4 /\ closes = << OK >>


\* the step delivers a packet on the unicast socket
UnicastStep == ev'.type = "rx" /\ ev'.sock = "socket"

\* the step handles pkt, which arrives on the unicast socket from the peer
\* of a live TFTM request or as its first answer
TftmAccepts(pkt) ==
    /\ UnicastStep /\ ev'.pkt = pkt
    /\ RRQ_MULTICAST \in tftp.flags /\ Live(tftp)
    /\ tftp.peer \in {0, ev'.src}

\* C17: in a TFTM request a unicast OACK whose multicast option has mc = 0
\* leaves SEND_ACK clear and is not acknowledged; one with mc # 0 leaves
\* SEND_ACK set and is acknowledged; and while SEND_ACK is clear, no step
\* other than a delivery on the unicast socket (DATA on the multicast
\* socket, a timer expiry) sets it or sends an ACK.
C17_NoAckUnlessMaster ==
    [][ /\ TftmAccepts(OackNonMaster) =>
             SEND_ACK \notin tftp'.flags /\ ~ HasKind(fx', "ack")
        /\ TftmAccepts(OackMaster) =>
             /\ SEND_ACK \in tftp'.flags
             /\ Kinds(fx') = << "ack" >>
             /\ fx'[1].a = bitmap_first_gap(tftp.bitmap) % BLOCK16 /\ fx'[1].b = ev'.src
        /\ (SEND_ACK \notin tftp.flags /\ ~ UnicastStep) =>
             SEND_ACK \notin tftp'.flags /\ ~ HasKind(fx', "ack") ]_vars

C17_Witness ==
    /\ ev.type = "rx" /\ ev.sock = "mc_socket" /\ ev.pkt.op = "DATA"
    /\ RRQ_MULTICAST \in tftp.flags /\ SEND_ACK \notin tftp.flags
    /\ Live(tftp) /\ tftp.peer # 0 /\ tftp.mc_socket.plugged
    /\ HasKind(fx, "write") /\ ~ HasKind(fx, "ack")


\* the status the claim gives to an error code
ErrorStatus(c) == IF c = 1 THEN ENOENT ELSE IF c = 2 THEN EACCES ELSE ENOTSUP

\* C18: a well-formed ERROR packet that arrives at a live request from its
\* peer, or as its first answer, ends the request with the status of its
\* error code (1: ENOENT, 2: EACCES, 4 and every other code: ENOTSUP), which
\* is never OK; no ACK and no RRQ is sent.
C18_ErrorEnds ==
    [][ ( /\ ev'.type = "rx" /\ ev'.pkt.op = "ERROR" /\ ~ ev'.pkt.short
          /\ Live(tftp) /\ tftp[ev'.sock].plugged
          /\ ev'.src # 0 /\ tftp.peer \in {0, ev'.src} ) =>
          /\ tftp'.xfer.nullified
          /\ closes' = closes \o << ErrorStatus(ev'.pkt.errcode) >>
          /\ ErrorStatus(ev'.pkt.errcode) # OK
          /\ ~ HasKind(fx', "ack") /\ ~ HasKind(fx', "rrq") ]_vars

C18_Witness ==
    /\ ev.type = "rx" /\ ev.pkt = Error(2) /\ DoneNow
    /\ closes = << EACCES >> /\ tftp.filesize = 0


\* C19: a request opened while the requested block size was
\* TFTP_MAX_BLKSIZE and the MTFTP port was MTFTP_DEFAULT_MC_PORT is not
\* affected by later changes of the tunables: every RRQ with a blksize
\* option that it sends carries TFTP_MAX_BLKSIZE, and its multicast socket
\* stays on MTFTP_DEFAULT_MC_PORT.
C19_TunablesReadAtOpen ==
    /\ \A i \in 1..Len(fx) :
         (fx[i].k = "rrq" /\ fx[i].rc # "none" /\ fx[i].rc # "multicast")
            => fx[i].b = TFTP_MAX_BLKSIZE
    /\ (MTFTP_RECOVERY \in tftp.flags /\ tftp.mc_socket.plugged)
         => tftp.mc_port = MTFTP_DEFAULT_MC_PORT

\* the multicast half of C19 holds: the port is copied when the multicast
\* socket is opened in tftp_core_open()
C19_McPortReadAtOpen ==
    (MTFTP_RECOVERY \in tftp.flags /\ tftp.mc_socket.plugged)
       => tftp.mc_port = MTFTP_DEFAULT_MC_PORT


\* C20: when the fallback of an MTFTP request to plain TFTP is taken, no
\* DATA has been delivered downstream: no block is marked and filesize is 0.
C20_FallbackBeforeData ==
    [][ Fallback => (tftp.filesize = 0 /\ Marked(tftp) = {}) ]_vars


\* the core of C20: no block is marked when the fallback is taken
C20_FallbackNothingMarked ==
    [][ Fallback => Marked(tftp) = {} ]_vars


\* C21: the fallback is taken only at the end of a run of more than
\* MTFTP_MAX_TIMEOUTS timer expiries with peer unset that no accepted packet
\* interrupts; in particular the event before the expiry that falls back is
\* an expiry with peer unset, which only resent the RRQ, or a packet that
\* was dropped, and never an expiry that found a peer and reopened the
\* socket.
C21_FallbackAfterConsecutive ==
    [][ Fallback => \/ ev.type = "timer" /\ Kinds(fx) = << "rrq" >>
                    \/ ev.type = "rx" /\ fx = << >> ]_vars


\* the step handles a DATA packet whose payload was delivered downstream and
\* whose block was then marked (no delivery, no resize failed)
DataMarked ==
    /\ ev'.type = "rx" /\ ev'.pkt.op = "DATA"
    /\ HasKind(fx', "write") /\ fx'[IndexOfKind(fx', "write")].rc = OK
    /\ ~ tftp'.crashed
    /\ HasKind(fx', "xfer") => fx'[IndexOfKind(fx', "xfer")].rc = OK

\* C22: a DATA packet that is delivered and marked is acknowledged inside its
\* handler exactly when SEND_ACK is set: one ACK, to peer, after the write,
\* carrying the first gap of the bitmap with the block marked; when the
\* block fills the bitmap the ACK precedes the closing of the sockets and
\* the request ends with OK.
C22_AckBeforeDone ==
    [][ DataMarked =>
          /\ SEND_ACK \in tftp'.flags =>
               /\ Cardinality({ i \in 1..Len(fx') : fx'[i].k = "ack" }) = 1
               /\ IndexOfKind(fx', "write") < IndexOfKind(fx', "ack")
               /\ fx'[IndexOfKind(fx', "ack")].a = bitmap_first_gap(tftp'.bitmap) % BLOCK16
               /\ fx'[IndexOfKind(fx', "ack")].b = tftp'.peer /\ tftp'.peer = ev'.src
          /\ SEND_ACK \notin tftp'.flags => ~ HasKind(fx', "ack")
          /\ bitmap_full(tftp'.bitmap) <=> HasKind(fx', "xfer")
          /\ (HasKind(fx', "xfer") /\ SEND_ACK \in tftp'.flags) =>
               /\ IndexOfKind(fx', "ack") < IndexOfKind(fx', "socket")
               /\ IndexOfKind(fx', "ack") < IndexOfKind(fx', "xfer")
               /\ closes' = closes \o << OK >> ]_vars

C22_Witness ==
    /\ ev.type = "rx" /\ ev.pkt.op = "DATA" /\ SEND_ACK \in tftp.flags
    /\ bitmap_full(tftp.bitmap) /\ tftp.bitmap.length > 1
    /\ HasKind(fx, "ack") /\ HasKind(fx, "socket")
    /\ IndexOfKind(fx, "ack") < IndexOfKind(fx, "socket")
    /\ fx[IndexOfKind(fx, "ack")].a = tftp.bitmap.length
    /\ closes = << OK >>


\* the step handles a well-formed DATA packet that reaches a live request
\* from its peer, or as its first answer
DataAccepted ==
    /\ ev'.type = "rx" /\ ev'.pkt.op = "DATA" /\ ~ ev'.pkt.short
    /\ Live(tftp) /\ ~ tftp[ev'.sock].nullified
    /\ ev'.src # 0 /\ tftp.peer \in {0, ev'.src}

\* C23: an accepted DATA packet whose payload is longer than blksize, or
\* whose wire block number is 0 while the first gap is 0, ends the request
\* with EINVAL: nothing is written downstream, filesize and the bitmap are
\* unchanged and no ACK is sent.  An accepted DATA packet with a block
\* number other than 0 and a payload of at most blksize bytes is delivered.
C23_BadDataRejected ==
    [][ DataAccepted =>
          /\ ( \/ ev'.pkt.len > tftp.blksize
               \/ ev'.pkt.block = 0 /\ bitmap_first_gap(tftp.bitmap) = 0 ) =>
               /\ tftp'.xfer.nullified
               /\ closes' = closes \o << EINVAL >>
               /\ ~ HasKind(fx', "write") /\ ~ HasKind(fx', "seek")
               /\ ~ HasKind(fx', "ack")
               /\ tftp'.filesize = tftp.filesize
               /\ tftp'.bitmap = tftp.bitmap
          /\ (ev'.pkt.len <= tftp.blksize /\ ev'.pkt.block # 0) =>
               /\ HasKind(fx', "write")
               /\ fx'[IndexOfKind(fx', "write")].b = ev'.pkt.len ]_vars

C23_Witness ==
    /\ ev.type = "rx" /\ ev.pkt.op = "DATA" /\ ev.pkt.block # 0
    /\ ev.pkt.len > tftp.blksize /\ tftp.blksize > 0
    /\ DoneNow /\ closes = << EINVAL >> /\ ~ HasKind(fx, "write")

C23_WitnessBlock0 ==
    /\ ev.type = "rx" /\ ev.pkt = Data(0, 0) /\ tftp.bitmap = BitmapZero
    /\ DoneNow /\ closes = << EINVAL >>


\* the step handles the OACK with the options k, which reaches a live
\* request on the unicast socket from its peer or as its first answer
OackAccepted(k) ==
    /\ ev'.type = "rx" /\ ev'.sock = "socket" /\ ev'.pkt = Oack(OackOptions[k])
    /\ Live(tftp) /\ ev'.src # 0 /\ tftp.peer \in {0, ev'.src}

\* the step ends the request with err, having run no presize and sent
\* nothing
OackRejected(err) ==
    /\ tftp'.xfer.nullified
    /\ closes' = closes \o << err >>
    /\ ~ HasKind(fx', "seek") /\ ~ HasKind(fx', "ack") /\ ~ HasKind(fx', "rrq")
    /\ tftp'.filesize = tftp.filesize /\ tftp'.bitmap = tftp.bitmap

\* C24: an OACK with a recognised option, in any letter case, whose value is
\* invalid ends the request with the error of that option; the option after
\* it is not processed, presize is not run and nothing is sent.  An OACK
\* with only unknown options leaves the request live and is answered with
\* the ACK that is the next packet.
C24_InvalidOptionEnds ==
    [][ /\ OackAccepted("blksize_tail") =>
             OackRejected(ETFTP_INVALID_BLKSIZE) /\ tftp'.tsize = tftp.tsize
        /\ OackAccepted("tsize_tail") =>
             OackRejected(ETFTP_INVALID_TSIZE) /\ tftp'.blksize = tftp.blksize
        /\ OackAccepted("mc_no_port") =>
             OackRejected(ETFTP_MC_NO_PORT) /\ tftp'.tsize = tftp.tsize
        /\ OackAccepted("mc_no_mc") =>
             OackRejected(ETFTP_MC_NO_MC) /\ tftp'.tsize = tftp.tsize
        /\ OackAccepted("mc_invalid_mc") =>
             OackRejected(ETFTP_MC_INVALID_MC) /\ tftp'.tsize = tftp.tsize
        /\ OackAccepted("mc_invalid_ip") =>
             OackRejected(ETFTP_MC_INVALID_IP) /\ tftp'.tsize = tftp.tsize
        /\ OackAccepted("mc_invalid_port") =>
             OackRejected(ETFTP_MC_INVALID_PORT) /\ tftp'.tsize = tftp.tsize
        /\ OackAccepted("unknown") =>
             /\ tftp'.xfer = tftp.xfer /\ closes' = closes
             /\ tftp'.blksize = tftp.blksize /\ tftp'.tsize = tftp.tsize
             /\ tftp'.bitmap = tftp.bitmap /\ tftp'.filesize = tftp.filesize
             /\ Kinds(fx') = << "ack" >>
             /\ fx'[1].a = bitmap_first_gap(tftp.bitmap) % BLOCK16
             /\ fx'[1].b = ev'.src ]_vars

C24_Witness ==
    /\ ev.type = "rx" /\ ev.pkt = Oack(OackOptions.mc_invalid_port)
    /\ DoneNow /\ closes = << ETFTP_MC_INVALID_PORT >>
    /\ tftp.tsize = 0 /\ ~ HasKind(fx, "mc_socket_open")

C24_WitnessUnknown ==
    /\ ev.type = "rx" /\ ev.pkt = Oack(OackOptions.unknown)
    /\ Live(tftp) /\ Kinds(fx) = << "ack" >> /\ tftp.filesize > 0


\* C25: if from some point on no packet is received, every opened request
\* ends, and it ends on a timer expiry with ETIMEDOUT as a plain request: a
\* TFTP or TFTM request, heard from or not, and an MTFTP request after it
\* has fallen back to plain TFTP.
C25_EventuallyTimeout ==
    <>[](ev.type # "rx") =>
        <>( /\ Done /\ ev.type = "timer" /\ ev.fail
            /\ closes = << ETIMEDOUT >>
            /\ MTFTP_RECOVERY \notin tftp.flags )

C25_Witness ==
    /\ Done /\ ev.type = "timer" /\ ev.fail /\ closes = << ETIMEDOUT >>
    /\ tftp.mtftp_timeouts = MTFTP_MAX_TIMEOUTS + 1 /\ tftp.filesize > 0
    /\ tftp.flags = {RRQ_SIZES}


\* C26: whenever the handling of a DATA packet marks a block, the index of
\* the block is below the length the bitmap has at that moment.
C26_MarkedWithinLength ==
    [][ DataMarked =>
          tftp_rx_data_block(bitmap_first_gap(tftp.bitmap), ev'.pkt.block)
              < tftp'.bitmap.length ]_vars


\* C27: between events the retry timer of every request that has been opened
\* and has not reached tftp_done() is running, and a timer expiry that does
\* not end the request leaves it running even when it sends nothing.
C27_LiveTimerArmed ==
    (opened /\ Live(tftp)) => tftp.timer = "running"

C27_Witness ==
    /\ opened /\ Live(tftp) /\ tftp.timer = "running"
    /\ ev.type = "timer" /\ fx = << >>
    /\ tftp.peer # 0 /\ SEND_ACK \notin tftp.flags

====
